---- MODULE Spec2Model ----
(***************************************************************************)
(* Model of nibabies/interfaces/reports.py: the report-segment generators  *)
(* (SubjectSummary, FunctionalSummary, AboutSummary), the summary writer   *)
(* SummaryInterface._run_interface, LabeledHistogram._generate_report and  *)
(* the helper get_world_pedir.                                             *)
(*                                                                         *)
(* Python values that may be None or left unset (nipype's Undefined) are   *)
(* tagged records [tag, v, s]; Python strings are TLA+ strings, indexed    *)
(* and sliced with SubSeq.  A call that raises returns a record whose      *)
(* field "raised" names the exception.                                     *)
(***************************************************************************)
EXTENDS Integers, Sequences, FiniteSets, TLC

VARIABLES call, ret, pc, segment, report, results

vars == <<call, ret, pc, segment, report, results>>

(***************************** bounds **************************************)
MaxDummy == 1
MaxEchoes == 3
MaxSeries == 3
MaxVoxels == 3

(************************** Python values **********************************)
None == [tag |-> "None", v |-> 0, s |-> ""]

Undefined == [tag |-> "Undefined", v |-> 0, s |-> ""]

IntVal(n) == [tag |-> "int", v |-> n, s |-> ""]

BoolVal(b) == [tag |-> "bool", v |-> IF b THEN 1 ELSE 0, s |-> ""]

StrVal(x) == [tag |-> "str", v |-> 0, s |-> x]

\* nipype.interfaces.base.isdefined
isdefined(x) == x.tag # "Undefined"

\* Python truth value; Undefined is falsy (nipype gives it a __len__ of 0)
Truthy(x) ==
    CASE x.tag = "None" -> FALSE
      [] x.tag = "Undefined" -> FALSE
      [] x.tag = "int" -> x.v # 0
      [] x.tag = "bool" -> x.v = 1
      [] x.tag = "str" -> x.s # ""
      [] x.tag = "list" -> x.v # 0

\* Python ==, on the values used here
PyEq(a, b) == a.tag = b.tag /\ a.v = b.v /\ a.s = b.s

\* str.format / f-string rendering of a value
PyStr(x) ==
    CASE x.tag = "None" -> "None"
      [] x.tag = "Undefined" -> "<undefined>"
      [] x.tag = "int" -> ToString(x.v)
      [] x.tag = "bool" -> (IF x.v = 1 THEN "True" ELSE "False")
      [] x.tag = "str" -> x.s

\* str.startswith
StartsWith(str, prefix) ==
    Len(prefix) <= Len(str) /\ SubSeq(str, 1, Len(prefix)) = prefix

\* the `in` operator on strings
Contains(str, sub) ==
    \E i \in 1..(Len(str) - Len(sub) + 1) : SubSeq(str, i, i + Len(sub) - 1) = sub

\* str.join
RECURSIVE Join(_, _)
Join(sep, seq) ==
    IF seq = <<>> THEN ""
    ELSE IF Len(seq) = 1 THEN seq[1]
    ELSE seq[1] \o sep \o Join(sep, Tail(seq))

(************************** get_world_pedir ********************************)
axes == << <<"Right", "Left">>, <<"Anterior", "Posterior">>, <<"Superior", "Inferior">> >>

ax_idcs == [i |-> 0, j |-> 1, k |-> 2]

PedirFallback == "Could not be determined - assuming Anterior-Posterior"

\* the (ax, flip) pairs in the order the two nested for loops visit them
PedirFlips ==
    << axes[1], <<axes[1][2], axes[1][1]>>,
       axes[2], <<axes[2][2], axes[2][1]>>,
       axes[3], <<axes[3][2], axes[3][1]>> >>

\* a faulty variant of FlipIndex, flip[inv], which C4 must tell apart
FlipIndex_Swapped(inv) == IF inv THEN 2 ELSE 1

\* flip[not inv], as a 1-based position: flip[0] when inv, flip[1] otherwise
FlipIndex(inv) == IF inv THEN 1 ELSE 2

\* result of get_world_pedir(ornt, pe_direction): ornt a string,
\* pe_direction None or StrVal(..); warnings counts the LOGGER.warning calls
get_world_pedir(ornt, pe_direction) ==
    IF pe_direction.tag # "None"
    THEN IF Len(pe_direction.s) < 1
         THEN [raised |-> "IndexError", value |-> "", warnings |-> 0]
         ELSE IF SubSeq(pe_direction.s, 1, 1) \notin DOMAIN ax_idcs
         THEN [raised |-> "KeyError", value |-> "", warnings |-> 0]
         ELSE IF ax_idcs[SubSeq(pe_direction.s, 1, 1)] >= Len(ornt)
         THEN [raised |-> "IndexError", value |-> "", warnings |-> 0]
         ELSE LET idx == ax_idcs[SubSeq(pe_direction.s, 1, 1)]
                  axcode == SubSeq(ornt, idx + 1, idx + 1)
                  inv == SubSeq(pe_direction.s, 2, Len(pe_direction.s)) = "-"
                  pick == FlipIndex(inv)
                  hits == {n \in 1..Len(PedirFlips) :
                              StartsWith(PedirFlips[n][pick], axcode)}
              IN IF hits # {}
                 THEN LET first == CHOOSE n \in hits : \A m \in hits : n <= m
                      IN [raised |-> "none",
                          value |-> PedirFlips[first][1] \o "-" \o PedirFlips[first][2],
                          warnings |-> 0]
                 ELSE [raised |-> "none", value |-> PedirFallback, warnings |-> 1]
    ELSE [raised |-> "none", value |-> PedirFallback, warnings |-> 1]

\* orientation letters tried: the six anatomical codes and one that is none
OrntLetters == {"R", "L", "A", "P", "S", "I", "X"}

OrntInputs ==
    {a \o b \o c : a \in OrntLetters, b \in OrntLetters, c \in OrntLetters}
        \cup {"", "RA"}

PeDirectionEnum == {None, StrVal("i"), StrVal("i-"), StrVal("j"), StrVal("j-"), StrVal("k"), StrVal("k-")}

PeDirectionInputs == PeDirectionEnum \cup {StrVal("x"), StrVal("x-"), StrVal(""), StrVal("i+")}

Idle == [op |-> "idle"]

\* no call in progress: every call starts from here, on fresh inputs
IsIdle == call = Idle /\ pc = "idle"

\* a direct call get_world_pedir(ornt, pe_direction)
CallGetWorldPedir ==
    /\ IsIdle
    /\ \E ornt \in OrntInputs, pe \in PeDirectionInputs :
        /\ call' = [op |-> "get_world_pedir", ornt |-> ornt, pe_direction |-> pe]
        /\ ret' = get_world_pedir(ornt, pe)
    /\ UNCHANGED <<pc, segment, report, results>>

(******************** FunctionalSummary._generate_segment ******************)
\* '{tr:.03g}' on the repetition times tried (three significant digits)
Format_03g(tr) ==
    CASE tr = "2.0" -> "2"
      [] tr = "0.8" -> "0.8"
      [] tr = "1.2345" -> "1.23"

FUNCTIONAL_TEMPLATE(ornt, tr, pedir, multiecho, stc, sdc, registration, dummy_scan_desc) ==
    "\t\t<details open>\n"
    \o "\t\t<summary>Summary</summary>\n"
    \o "\t\t<ul class=\"elem-desc\">\n"
    \o "\t\t\t<li>Original orientation: " \o ornt \o "</li>\n"
    \o "\t\t\t<li>Repetition time (TR): " \o Format_03g(tr) \o "s</li>\n"
    \o "\t\t\t<li>Phase-encoding (PE) direction: " \o pedir \o "</li>\n"
    \o "\t\t\t<li>" \o multiecho \o "</li>\n"
    \o "\t\t\t<li>Slice timing correction: " \o stc \o "</li>\n"
    \o "\t\t\t<li>Susceptibility distortion correction: " \o sdc \o "</li>\n"
    \o "\t\t\t<li>Registration: " \o registration \o "</li>\n"
    \o "\t\t\t<li>Non-steady-state volumes: " \o dummy_scan_desc \o "</li>\n"
    \o "\t\t</ul>\n"
    \o "\t\t</details>\n"

\* the slice-timing table, keyed by the Enum(False, True, 'TooShort') value
SliceTimingTable(slice_timing) ==
    CASE slice_timing = BoolVal(TRUE) -> "Applied"
      [] slice_timing = BoolVal(FALSE) -> "Not applied"
      [] slice_timing = StrVal("TooShort") -> "Skipped (too few volumes)"

\* a faulty variant of RegistrationTable, the mri_coreg text with a fixed
\* "6 dof", which C1 must tell apart
RegistrationTable_FixedCoreg(dof) ==
    [FSL |->
        << "FSL <code>flirt</code> with boundary-based registration"
               \o " (BBR) metric - " \o ToString(dof) \o " dof",
           "FSL <code>flirt</code> rigid registration - 6 dof" >>,
     FreeSurfer |->
        << "FreeSurfer <code>bbregister</code> "
               \o "(boundary-based registration, BBR) - " \o ToString(dof) \o " dof",
           "FreeSurfer <code>mri_coreg</code> - 6 dof" >>]

\* the registration table with dof substituted: method -> [no fallback, fallback]
RegistrationTable(dof) ==
    [FSL |->
        << "FSL <code>flirt</code> with boundary-based registration"
               \o " (BBR) metric - " \o ToString(dof) \o " dof",
           "FSL <code>flirt</code> rigid registration - 6 dof" >>,
     FreeSurfer |->
        << "FreeSurfer <code>bbregister</code> "
               \o "(boundary-based registration, BBR) - " \o ToString(dof) \o " dof",
           "FreeSurfer <code>mri_coreg</code> - " \o ToString(dof) \o " dof" >>]

\* the three-way reconciliation of user-specified and detected dummy scans
DummyScanMsg(dummy_scans, algo_dummy_scans) ==
    IF PyEq(dummy_scans, algo_dummy_scans)
    THEN PyStr(dummy_scans) \o " " \o "(Confirmed: " \o PyStr(algo_dummy_scans)
             \o " automatically detected)"
    ELSE IF dummy_scans # None
    THEN PyStr(dummy_scans) \o " " \o "(Warning: " \o PyStr(algo_dummy_scans)
             \o " automatically detected)"
    ELSE PyStr(algo_dummy_scans)

\* a faulty variant of MultiechoText, "n_echos > 1" for "n_echos > 2",
\* which C3 must tell apart
MultiechoText_FromTwo(echo_idx) ==
    LET n_echos == Len(echo_idx)
        m0 == "Single-echo EPI sequence."
        m1 == IF n_echos = 1
              THEN "Multi-echo EPI sequence: only echo " \o echo_idx[1]
                       \o " processed in single-echo mode."
              ELSE m0
    IN IF n_echos > 1
       THEN "Multi-echo EPI sequence: " \o ToString(n_echos) \o " echoes."
       ELSE m1

\* the echo text, from the list of echo identifiers
MultiechoText(echo_idx) ==
    LET n_echos == Len(echo_idx)
        m0 == "Single-echo EPI sequence."
        m1 == IF n_echos = 1
              THEN "Multi-echo EPI sequence: only echo " \o echo_idx[1]
                       \o " processed in single-echo mode."
              ELSE m0
    IN IF n_echos > 2
       THEN "Multi-echo EPI sequence: " \o ToString(n_echos) \o " echoes."
       ELSE m1

FunctionalRaise(exc) ==
    [raised |-> exc, segment |-> "", stc |-> "", reg |-> "", pedir |-> "",
     dummy_scan_msg |-> "", multiecho |-> "", warnings |-> 0]

\* result of FunctionalSummary._generate_segment on the inputs record `in`
FunctionalSummary_generate_segment(in) ==
    LET dof == in.registration_dof
        stc == IF isdefined(in.slice_timing)
               THEN SliceTimingTable(in.slice_timing)
               ELSE "n/a"
    IN IF in.fallback.tag # "bool"
       THEN FunctionalRaise("TypeError")  \* a list indexed by Undefined
       ELSE
       LET reg == RegistrationTable(dof)[in.registration][in.fallback.v + 1]
           pe == get_world_pedir(in.orientation, in.pe_direction)
       IN IF pe.raised # "none"
          THEN FunctionalRaise(pe.raised)
          ELSE
          LET pedir == pe.value
              dummy_scan_msg == DummyScanMsg(in.dummy_scans, in.algo_dummy_scans)
              multiecho == MultiechoText(in.echo_idx)
          IN [raised |-> "none",
              segment |-> FUNCTIONAL_TEMPLATE(in.orientation, in.tr, pedir, multiecho,
                                              stc, in.distortion_correction, reg,
                                              dummy_scan_msg),
              stc |-> stc, reg |-> reg, pedir |-> pedir,
              dummy_scan_msg |-> dummy_scan_msg, multiecho |-> multiecho,
              warnings |-> pe.warnings]

SliceTimingInputs == {BoolVal(FALSE), BoolVal(TRUE), StrVal("TooShort"), Undefined}

FallbackInputs == {BoolVal(FALSE), BoolVal(TRUE), Undefined}

RegistrationDofEnum == {6, 9, 12}

DummyScansInputs == {IntVal(n) : n \in 0..MaxDummy} \cup {None, Undefined}

AlgoDummyScansInputs == {IntVal(n) : n \in 0..MaxDummy} \cup {Undefined}

\* echo identifier lists: ["1", .., "n"] for n up to MaxEchoes, and every
\* one-element list
EchoIdxInputs ==
    {[i \in 1..n |-> ToString(i)] : n \in 0..MaxEchoes}
        \cup {<<ToString(e)>> : e \in 1..MaxEchoes}

FunctionalInputs ==
    [slice_timing : SliceTimingInputs,
     distortion_correction : {"None"},
     pe_direction : PeDirectionEnum,
     registration : {"FSL", "FreeSurfer"},
     fallback : FallbackInputs,
     registration_dof : RegistrationDofEnum,
     registration_init : {"t1w"},
     tr : {"2.0"},
     dummy_scans : DummyScansInputs,
     algo_dummy_scans : AlgoDummyScansInputs,
     echo_idx : EchoIdxInputs,
     orientation : {"RAS", "LPI"}]

\* a direct call FunctionalSummary(**in)._generate_segment()
CallFunctionalSummary ==
    /\ IsIdle
    /\ \E in \in FunctionalInputs :
        /\ call' = [op |-> "FunctionalSummary", in |-> in]
        /\ ret' = FunctionalSummary_generate_segment(in)
    /\ UNCHANGED <<pc, segment, report, results>>

(********************* SubjectSummary._generate_segment ********************)
\* [a-zA-Z0-9] in code-point order
Alnum == "0123456789ABCDEFGHIJKLMNOPQRSTUVWXYZabcdefghijklmnopqrstuvwxyz"

AlnumChars == {SubSeq(Alnum, i, i) : i \in 1..Len(Alnum)}

IsAlnum(c) == c \in AlnumChars

CharCode(c) == CHOOSE i \in 1..Len(Alnum) : SubSeq(Alnum, i, i) = c

\* Python's < on strings of alphanumerics (code-point, lexicographic)
RECURSIVE StrLess(_, _)
StrLess(a, b) ==
    IF b = "" THEN FALSE
    ELSE IF a = "" THEN TRUE
    ELSE LET ca == CharCode(SubSeq(a, 1, 1))
             cb == CharCode(SubSeq(b, 1, 1))
         IN IF ca # cb THEN ca < cb
            ELSE StrLess(SubSeq(a, 2, Len(a)), SubSeq(b, 2, Len(b)))

\* length of the longest prefix of str matched by [a-zA-Z0-9]*
RECURSIVE AlnumPrefixLen(_)
AlnumPrefixLen(str) ==
    IF str = "" \/ ~IsAlnum(SubSeq(str, 1, 1)) THEN 0
    ELSE 1 + AlnumPrefixLen(SubSeq(str, 2, Len(str)))

\* the optional groups of BIDS_NAME after subject_id, in pattern order
BIDS_NAME_keys == <<"ses-", "task-", "acq-", "rec-", "run-">>

\* A file name is the sequence of its "_"-separated parts.  Each optional
\* group "(_(?P<x>key-[a-zA-Z0-9]+))?" greedily takes the part at pos when
\* the text matched so far ends right before its "_" (adjacent); the result
\* is the captured text of each group, None for a group that did not take part.
RECURSIVE BIDS_NAME_groups(_, _, _, _)
BIDS_NAME_groups(parts, pos, keys, adjacent) ==
    IF keys = <<>> THEN <<>>
    ELSE LET key == Head(keys)
             takes == /\ adjacent
                      /\ pos <= Len(parts)
                      /\ StartsWith(parts[pos], key)
                      /\ AlnumPrefixLen(SubSeq(parts[pos], Len(key) + 1, Len(parts[pos]))) >= 1
         IN IF takes
            THEN LET n == Len(key)
                          + AlnumPrefixLen(SubSeq(parts[pos], Len(key) + 1, Len(parts[pos])))
                 IN <<StrVal(SubSeq(parts[pos], 1, n))>>
                        \o BIDS_NAME_groups(parts, pos + 1, Tail(keys), n = Len(parts[pos]))
            ELSE <<None>> \o BIDS_NAME_groups(parts, pos, Tail(keys), adjacent)

\* BIDS_NAME.search(series): None when the name does not start with a subject
\* part, else the groupdict (the directory prefix "(.*\/)?" is left out of
\* the name)
BIDS_NAME_search(parts) ==
    IF /\ Len(parts) >= 1
       /\ StartsWith(parts[1], "sub-")
       /\ AlnumPrefixLen(SubSeq(parts[1], 5, Len(parts[1]))) >= 1
    THEN LET n == 4 + AlnumPrefixLen(SubSeq(parts[1], 5, Len(parts[1])))
             g == BIDS_NAME_groups(parts, 2, BIDS_NAME_keys, n = Len(parts[1]))
         IN [matched |-> TRUE, subject_id |-> StrVal(SubSeq(parts[1], 1, n)),
             session_id |-> g[1], task_id |-> g[2], acq_id |-> g[3],
             rec_id |-> g[4], run_id |-> g[5]]
    ELSE [matched |-> FALSE, subject_id |-> None, session_id |-> None,
          task_id |-> None, acq_id |-> None, rec_id |-> None, run_id |-> None]

\* bold_series = [s[0] if isinstance(s, list) else s for s in bold_series];
\* an entry is [is_list, files]: a single file has one element in files
BoldSeries(bold) ==
    IF isdefined(bold) THEN [i \in 1..Len(bold.items) |-> bold.items[i].files[1]] ELSE <<>>

\* the first exception raised while the task identifiers are collected
TaskError(bold_series) ==
    IF \E i \in 1..Len(bold_series) : ~BIDS_NAME_search(bold_series[i]).matched
    THEN "AttributeError"
    ELSE IF \E i \in 1..Len(bold_series) : BIDS_NAME_search(bold_series[i]).task_id = None
    THEN "TypeError"
    ELSE "none"

\* groupdict()['task_id'][5:] for each series
TaskIds(bold_series) ==
    [i \in 1..Len(bold_series) |->
        LET t == BIDS_NAME_search(bold_series[i]).task_id.s
        IN SubSeq(t, 6, Len(t))]

\* collections.Counter over a sequence
Counter(seq) ==
    [t \in {seq[i] : i \in 1..Len(seq)} |-> Cardinality({i \in 1..Len(seq) : seq[i] = t})]

\* a faulty variant of SortedItems, counts.items() in descending order,
\* which C6 must tell apart
RECURSIVE SortedItems_Descending(_)
SortedItems_Descending(counts) ==
    IF DOMAIN counts = {} THEN <<>>
    ELSE LET most == CHOOSE t \in DOMAIN counts :
                         \A u \in DOMAIN counts \ {t} : StrLess(u, t)
         IN <<[task_id |-> most, n_runs |-> counts[most]]>>
                \o SortedItems_Descending([u \in DOMAIN counts \ {most} |-> counts[u]])

\* sorted(counts.items()): the (task_id, n_runs) pairs by ascending task_id
RECURSIVE SortedItems(_)
SortedItems(counts) ==
    IF DOMAIN counts = {} THEN <<>>
    ELSE LET least == CHOOSE t \in DOMAIN counts :
                          \A u \in DOMAIN counts \ {t} : StrLess(t, u)
         IN <<[task_id |-> least, n_runs |-> counts[least]]>>
                \o SortedItems([u \in DOMAIN counts \ {least} |-> counts[u]])

TaskLine(item) ==
    "\t\t\t<li>Task: " \o item.task_id \o " (" \o ToString(item.n_runs) \o " run"
        \o (IF item.n_runs = 1 THEN "" ELSE "s") \o ")</li>"

\* the nested task block
TasksBlock(items) ==
    IF items # <<>>
    THEN Join("\n", <<"\t\t<ul class=\"elem-desc\">">>
                        \o [i \in 1..Len(items) |-> TaskLine(items[i])]
                        \o <<"\t\t</ul>">>)
    ELSE ""

SUBJECT_TEMPLATE(subject_id, session_id, age, num_t1w, num_t2w, anat_ref, n_bold, tasks, std_spaces, nstd_spaces, recon_method, recon_status) ==
    "\t<ul class=\"elem-desc\">\n"
    \o "\t\t<li>Subject ID: " \o subject_id \o "</li>\n"
    \o "\t\t<li>Session ID: " \o session_id \o "</li>\n"
    \o "\t\t<li>Chronological age (months): " \o age \o "</li>\n"
    \o "\t\t<li>Structural images: " \o num_t1w \o " T1-weighted, "
        \o num_t2w \o " T2-weighted</li>\n"
    \o "\t\t<li>Anatomical reference space: " \o anat_ref \o "<li>\n"
    \o "\t\t<li>Functional series: " \o n_bold \o "</li>\n"
    \o tasks \o "\n"
    \o "\t\t<li>Standard output spaces: " \o std_spaces \o "</li>\n"
    \o "\t\t<li>Non-standard output spaces: " \o nstd_spaces \o "</li>\n"
    \o "\t\t<li>Surface reconstruction method: " \o recon_method \o "</li>\n"
    \o "\t\t<li>Surface reconstruction status: " \o recon_status \o "</li>\n"
    \o "\t</ul>\n"

statuses == [no |-> "Not run", todo |-> "Run by NiBabies", done |-> "Pre-existing directory"]

\* SubjectSummary._run_interface, before the segment is generated: the
\* _recon_id attribute, Undefined when it is never assigned
ReconId(subject_id, session_id) ==
    IF Truthy(subject_id)
    THEN IF Truthy(session_id)
         THEN StrVal("sub-" \o subject_id.s \o "_ses-" \o session_id.s)
         ELSE StrVal("sub-" \o subject_id.s)
    ELSE Undefined

\* the reconstruction status: [raised, status]; status "" with raised "none"
\* is the local variable left unassigned.  env.cmdline_echo says whether the
\* reconstruction tool's command line starts with 'echo', env.existing is
\* the set of paths that exist on disk.
ReconStatus(in, recon_id, env) ==
    IF ~Truthy(in.subjects_dir)
    THEN [raised |-> "none", status |-> statuses.no]
    ELSE IF in.recon_method \in {StrVal("freesurfer"), StrVal("infantfs")}
    THEN IF ~isdefined(recon_id)
         THEN [raised |-> "AttributeError", status |-> ""]
         ELSE [raised |-> "none",
               status |-> IF env.cmdline_echo THEN statuses.done ELSE statuses.todo]
    ELSE IF in.recon_method = StrVal("mcribs")
    THEN IF ~isdefined(recon_id)
         THEN [raised |-> "AttributeError", status |-> ""]
         ELSE LET fingerprint == in.subjects_dir.s \o "/" \o recon_id.s
                                     \o "/scripts/mcribs.log"
              IN [raised |-> "none",
                  status |-> IF fingerprint \in env.existing
                             THEN statuses.done ELSE statuses.todo]
    ELSE [raised |-> "none", status |-> ""]

SubjectRaise(exc) ==
    [raised |-> exc, segment |-> "", recon_status |-> "", n_bold |-> 0,
     items |-> <<>>, tasks |-> ""]

\* result of SubjectSummary._generate_segment on the inputs record `in`
SubjectSummary_generate_segment(in, recon_id, env) ==
    LET recon == ReconStatus(in, recon_id, env)
        num_t1w == IF Truthy(in.t1w) THEN Len(in.t1w.items) ELSE 0
        num_t2w == IF Truthy(in.t2w) THEN Len(in.t2w.items) ELSE 0
        bold_series == BoldSeries(in.bold)
    IN IF recon.raised # "none" THEN SubjectRaise(recon.raised)
       ELSE IF TaskError(bold_series) # "none" THEN SubjectRaise(TaskError(bold_series))
       ELSE IF recon.status = "" THEN SubjectRaise("UnboundLocalError")
       ELSE
       LET items == SortedItems(Counter(TaskIds(bold_series)))
           tasks == TasksBlock(items)
       IN [raised |-> "none",
           segment |-> SUBJECT_TEMPLATE(PyStr(in.subject_id), PyStr(in.session_id),
                           PyStr(in.age), ToString(num_t1w), ToString(num_t2w),
                           in.anatomical_reference, ToString(Len(bold_series)), tasks,
                           Join(", ", in.std_spaces), Join(", ", in.nstd_spaces),
                           PyStr(in.recon_method), recon.status),
           recon_status |-> recon.status,
           n_bold |-> Len(bold_series),
           items |-> items,
           tasks |-> tasks]

\* a list-valued input that is set: [tag "list", items]
ListVal(items) == [tag |-> "list", v |-> Len(items), s |-> "", items |-> items]

File(parts) == [is_list |-> FALSE, files |-> <<parts>>]

EchoGroup(files) == [is_list |-> TRUE, files |-> files]

\* the functional series tried: runs of two tasks with and without a session,
\* an echo group of a third task, and a series whose name has no task part
BoldPool ==
    { File(<<"sub-01", "task-rest", "run-1", "bold.nii.gz">>),
      File(<<"sub-01", "ses-1", "task-rest", "run-2", "bold.nii.gz">>),
      File(<<"sub-01", "task-nback", "bold.nii.gz">>),
      EchoGroup(<< <<"sub-01", "task-Rest", "echo-1", "bold.nii.gz">>,
                   <<"sub-01", "task-nback", "echo-2", "bold.nii.gz">> >>),
      File(<<"sub-01", "acq-mb", "sbref.nii.gz">>) }

BoldInputs ==
    {Undefined} \cup
    UNION {{ListVal(q) : q \in [1..n -> BoldPool]} : n \in 0..MaxSeries}

SubjectsDir == "/fs"

FingerprintPaths ==
    {SubjectsDir \o "/sub-01/scripts/mcribs.log",
     SubjectsDir \o "/sub-01_ses-1/scripts/mcribs.log"}

ReconMethodInputs ==
    {None, Undefined, StrVal("freesurfer"), StrVal("infantfs"), StrVal("mcribs")}

SubjectInputsWith(bolds) ==
    [t1w : {ListVal(<<"sub-01_T1w.nii.gz">>)},
     t2w : {Undefined},
     subjects_dir : {Undefined, StrVal(SubjectsDir)},
     subject_id : {StrVal("01")},
     session_id : {Undefined, StrVal("1")},
     anatomical_reference : {"T1w"},
     bold : bolds,
     std_spaces : {<<"MNIInfant", "fsaverage">>},
     nstd_spaces : {<<"T1w">>},
     recon_method : ReconMethodInputs,
     age : {IntVal(2)}]

SubjectInputs == SubjectInputsWith(BoldInputs)

\* the environment is varied only where the branch taken reads it
SubjectEnvs(in) ==
    [cmdline_echo : IF /\ Truthy(in.subjects_dir)
                       /\ in.recon_method \in {StrVal("freesurfer"), StrVal("infantfs")}
                    THEN BOOLEAN ELSE {FALSE},
     existing : IF Truthy(in.subjects_dir) /\ in.recon_method = StrVal("mcribs")
                THEN SUBSET FingerprintPaths ELSE {{}}]

\* SubjectSummary(**in): _recon_id as _run_interface sets it, then
\* _generate_segment()
CallSubjectSummary ==
    /\ IsIdle
    /\ \E in \in SubjectInputs : \E env \in SubjectEnvs(in) :
        /\ call' = [op |-> "SubjectSummary", in |-> in, env |-> env]
        /\ ret' = SubjectSummary_generate_segment(
                      in, ReconId(in.subject_id, in.session_id), env)
    /\ UNCHANGED <<pc, segment, report, results>>

(******************** LabeledHistogram._generate_report ********************)
\* np.uint16 of a non-negative label value
Uint16(x) == x % 65536

\* data[labels == label]: the voxels carrying the label, in image order
RECURSIVE SelectVoxels(_, _, _)
SelectVoxels(data, labels, label) ==
    IF data = <<>> THEN <<>>
    ELSE (IF Head(labels) = label THEN <<Head(data)>> ELSE <<>>)
             \o SelectVoxels(Tail(data), Tail(labels), label)

\* np.unique: the distinct values in ascending order
RECURSIVE Ascending(_)
Ascending(set) ==
    IF set = {} THEN <<>>
    ELSE LET least == CHOOSE x \in set : \A y \in set : x <= y
         IN <<least>> \o Ascending(set \ {least})

\* The groups handed to the histogram plot.  in.data and in.label are the
\* voxel values and the label image on the same grid; in.mapping is the dict
\* as its (key, name) items in insertion order.  A group name is StrVal(name)
\* when it comes from the mapping and IntVal(label) when it is the raw label.
LabeledHistogram_generate_report(in) ==
    LET data == in.data
        labels == IF Truthy(in.label)
                  THEN [i \in 1..Len(data) |-> Uint16(in.label.items[i])]
                  ELSE [i \in 1..Len(data) |-> IF data[i] > 0 THEN 1 ELSE 0]
        uniq_labels == Ascending({labels[i] : i \in {j \in 1..Len(data) : labels[j] > 0}})
        label_map == IF Truthy(in.mapping)
                     THEN [i \in 1..Len(in.mapping.items) |->
                              [key |-> in.mapping.items[i].key,
                               name |-> StrVal(in.mapping.items[i].name)]]
                     ELSE [i \in 1..Len(uniq_labels) |->
                              [key |-> uniq_labels[i], name |-> IntVal(uniq_labels[i])]]
        names == {label_map[i].name : i \in 1..Len(label_map)}
        \* a dict comprehension keeps the value of the last item with a name
        last(name) == CHOOSE i \in 1..Len(label_map) :
                          /\ label_map[i].name = name
                          /\ \A j \in 1..Len(label_map) : label_map[j].name = name => j <= i
    IN [raised |-> "none",
        uniq_labels |-> uniq_labels,
        rois |-> [name \in names |-> SelectVoxels(data, labels, label_map[last(name)].key)]]

VoxelValues == {-1, 2}

LabelValues == {0, 1, 2}

Item(key, name) == [key |-> key, name |-> name]

MappingInputs ==
    {Undefined, ListVal(<<>>),
     ListVal(<<Item(1, "GM")>>),
     ListVal(<<Item(2, "WM")>>),
     ListVal(<<Item(1, "GM"), Item(2, "WM")>>),
     ListVal(<<Item(1, "GM"), Item(3, "CSF")>>),
     ListVal(<<Item(1, "brain"), Item(2, "brain")>>)}

HistogramInputs ==
    [data : [1..MaxVoxels -> VoxelValues],
     label : {Undefined} \cup {ListVal(l) : l \in [1..MaxVoxels -> LabelValues]},
     mapping : MappingInputs]

\* a call of LabeledHistogram(**in)._generate_report()
CallLabeledHistogram ==
    /\ IsIdle
    /\ \E in \in HistogramInputs :
        /\ call' = [op |-> "LabeledHistogram", in |-> in]
        /\ ret' = LabeledHistogram_generate_report(in)
    /\ UNCHANGED <<pc, segment, report, results>>

(********************* AboutSummary._generate_segment **********************)
ABOUT_TEMPLATE(version, command, date) ==
    "\t<ul>\n"
    \o "\t\t<li>NiBabies version: " \o version \o "</li>\n"
    \o "\t\t<li>NiBabies command: <code>" \o command \o "</code></li>\n"
    \o "\t\t<li>Date preprocessed: " \o date \o "</li>\n"
    \o "\t</ul>\n"
    \o "</div>\n"

\* `date` is what time.strftime('%Y-%m-%d %H:%M:%S %z') returns at the call
AboutSummary_generate_segment(in, date) ==
    [raised |-> "none",
     segment |-> ABOUT_TEMPLATE(PyStr(in.version), PyStr(in.command), date)]

(********************* SummaryInterface._run_interface *********************)
\* os.path.join(runtime.cwd, 'report.html')
ReportPath(cwd) == cwd \o "/" \o "report.html"

Cwds == {"/work"}

RunFunctionalInputs ==
    {in \in FunctionalInputs :
        /\ in.slice_timing = BoolVal(TRUE)
        /\ in.pe_direction \in {None, StrVal("j-")}
        /\ in.registration = "FreeSurfer"
        /\ in.registration_dof = 6
        /\ in.dummy_scans = None
        /\ in.algo_dummy_scans = IntVal(0)
        /\ in.echo_idx = <<>>
        /\ in.orientation = "RAS"}

RunSubjectInputs ==
    {in \in SubjectInputsWith(
                {Undefined, ListVal(<<File(<<"sub-01", "task-rest", "bold.nii.gz">>)>>)}) :
        in.recon_method \in {None, StrVal("mcribs")}}

AboutInputs == [version : {StrVal("24.0.0"), Undefined}, command : {StrVal("nibabies /data /out")}]

Dates == {"2024-01-01 00:00:00 +0000", "2024-06-30 23:59:59 -0500"}

\* segment = self._generate_segment(): the step's outcome on the run state
Generated(gen) ==
    IF gen.raised = "none"
    THEN /\ pc' = "generated"
         /\ segment' = gen.segment
         /\ ret' = Idle
    ELSE /\ pc' = "raised"
         /\ segment' = ""
         /\ ret' = [raised |-> gen.raised]

\* FunctionalSummary._run_interface up to the generated segment
RunFunctionalSummary ==
    /\ IsIdle
    /\ \E in \in RunFunctionalInputs, cwd \in Cwds :
        /\ call' = [op |-> "_run_interface", kind |-> "FunctionalSummary", cwd |-> cwd]
        /\ Generated(FunctionalSummary_generate_segment(in))
    /\ UNCHANGED <<report, results>>

\* AboutSummary._run_interface up to the generated segment
RunAboutSummary ==
    /\ IsIdle
    /\ \E in \in AboutInputs, date \in Dates, cwd \in Cwds :
        /\ call' = [op |-> "_run_interface", kind |-> "AboutSummary", cwd |-> cwd]
        /\ Generated(AboutSummary_generate_segment(in, date))
    /\ UNCHANGED <<report, results>>

\* SubjectSummary._run_interface up to the generated segment: the
\* reconstruction subject ID is recorded first
RunSubjectSummary ==
    /\ IsIdle
    /\ \E in \in RunSubjectInputs, cwd \in Cwds : \E env \in SubjectEnvs(in) :
        LET recon_id == ReconId(in.subject_id, in.session_id)
        IN /\ call' = [op |-> "_run_interface", kind |-> "SubjectSummary", cwd |-> cwd]
           /\ results' = IF Truthy(in.subject_id)
                         THEN [results EXCEPT !.subject_id = recon_id]
                         ELSE results
           /\ Generated(SubjectSummary_generate_segment(in, recon_id, env))
    /\ UNCHANGED report

\* a faulty variant of RunOpen, out_report recorded before the segment is
\* written, which C7 must tell apart
RunOpen_RecordsFirst ==
    /\ pc = "generated"
    /\ \/ /\ report' = [exists |-> TRUE, content |-> ""]
          /\ results' = [results EXCEPT !.out_report = StrVal(ReportPath(call.cwd))]
          /\ pc' = "opened"
          /\ UNCHANGED ret
       \/ /\ pc' = "raised"
          /\ ret' = [raised |-> "OSError"]
          /\ UNCHANGED <<report, results>>
    /\ UNCHANGED <<call, segment>>

\* open(fname, 'w'): the file is created or truncated, or the open fails
RunOpen ==
    /\ pc = "generated"
    /\ \/ /\ report' = [exists |-> TRUE, content |-> ""]
          /\ pc' = "opened"
          /\ UNCHANGED ret
       \/ /\ pc' = "raised"
          /\ ret' = [raised |-> "OSError"]
          /\ UNCHANGED report
    /\ UNCHANGED <<call, segment, results>>

\* fobj.write(segment) and the close at the end of the with block: the
\* whole segment reaches the file, or the write fails part way
RunWrite ==
    /\ pc = "opened"
    /\ \/ /\ report' = [report EXCEPT !.content = segment]
          /\ pc' = "written"
          /\ UNCHANGED ret
       \/ /\ \E n \in {0, Len(segment) \div 2} :
                report' = [report EXCEPT !.content = SubSeq(segment, 1, n)]
          /\ pc' = "raised"
          /\ ret' = [raised |-> "OSError"]
    /\ UNCHANGED <<call, segment, results>>

\* self._results['out_report'] = fname; return runtime
RunRecord ==
    /\ pc = "written"
    /\ results' = [results EXCEPT !.out_report = StrVal(ReportPath(call.cwd))]
    /\ pc' = "done"
    /\ ret' = [raised |-> "none"]
    /\ UNCHANGED <<call, segment, report>>

\* the run is over; the next one is a new interface in a new directory
RunReturn ==
    /\ pc \in {"done", "raised"}
    /\ call' = Idle
    /\ ret' = Idle
    /\ pc' = "idle"
    /\ segment' = ""
    /\ report' = [exists |-> FALSE, content |-> ""]
    /\ results' = [out_report |-> None, subject_id |-> None]

\* the caller takes the result; inputs and result are discarded
Return ==
    /\ call # Idle
    /\ pc = "idle"
    /\ call' = Idle
    /\ ret' = Idle
    /\ UNCHANGED <<pc, segment, report, results>>

Init ==
    /\ call = Idle
    /\ ret = Idle
    /\ pc = "idle"
    /\ segment = ""
    /\ report = [exists |-> FALSE, content |-> ""]
    /\ results = [out_report |-> None, subject_id |-> None]

Next ==
    \/ CallGetWorldPedir
    \/ CallFunctionalSummary
    \/ CallSubjectSummary
    \/ CallLabeledHistogram
    \/ Return
    \/ RunFunctionalSummary
    \/ RunAboutSummary
    \/ RunSubjectSummary
    \/ RunOpen
    \/ RunWrite
    \/ RunRecord
    \/ RunReturn

Spec == Init /\ [][Next]_vars

(***************************************************************************)
(*                               Claims                                    *)
(***************************************************************************)
IsFunctionalCall == call.op = "FunctionalSummary"

DofText == ToString(call.in.registration_dof) \o " dof"

\* C1 as stated: for every registration method, every fallback value in
\* {false, true} and every registration_dof, the selected registration
\* description contains the configured dof followed by " dof".
C1_DofInEveryDescription ==
    (IsFunctionalCall /\ call.in.fallback.tag = "bool")
        => (ret.raised = "none" /\ Contains(ret.reg, DofText))

\* C1 amended: the description contains the configured dof followed by
\* " dof" for every (method, fallback) except (FSL, true), where it is the
\* fixed text "FSL <code>flirt</code> rigid registration - 6 dof" whatever
\* dof is configured.
C1_DofInDescriptionExceptFslFallback ==
    (IsFunctionalCall /\ call.in.fallback.tag = "bool")
        => /\ ret.raised = "none"
           /\ IF call.in.registration = "FSL" /\ call.in.fallback = BoolVal(TRUE)
              THEN ret.reg = "FSL <code>flirt</code> rigid registration - 6 dof"
              ELSE Contains(ret.reg, DofText)

C1_Witness ==
    /\ IsFunctionalCall
    /\ call.in.registration = "FreeSurfer"
    /\ call.in.fallback = BoolVal(TRUE)
    /\ call.in.registration_dof = 12
    /\ ret.raised = "none"
    /\ Contains(ret.reg, "mri_coreg</code> - 12 dof")

\* C2: the non-steady-state message is "<user> (Confirmed: <algo>
\* automatically detected)" when the user count is present and equals the
\* detected count, "<user> (Warning: <algo> automatically detected)" when it
\* is present and differs, and the bare detected count when the user count
\* is absent (None, or the input left unset).  (Stated for a detected count
\* that is set.)
C2_DummyScanMessage ==
    (IsFunctionalCall /\ ret.raised = "none" /\ call.in.algo_dummy_scans.tag = "int")
        => LET user == call.in.dummy_scans
               algo == call.in.algo_dummy_scans
               present == user.tag = "int"
           IN ret.dummy_scan_msg =
                  IF present /\ algo.tag = "int" /\ user.v = algo.v
                  THEN PyStr(user) \o " (Confirmed: " \o PyStr(algo)
                           \o " automatically detected)"
                  ELSE IF present
                  THEN PyStr(user) \o " (Warning: " \o PyStr(algo)
                           \o " automatically detected)"
                  ELSE PyStr(algo)

\* C3: the echo text depends on the number n of echo identifiers only (and
\* the first identifier): n = 1 gives the "only echo <id> processed in
\* single-echo mode" text, n > 2 the "<n> echoes" text, n = 2 and n = 0 the
\* default single-echo text.
C3_EchoText ==
    (IsFunctionalCall /\ ret.raised = "none")
        => LET n == Len(call.in.echo_idx)
           IN ret.multiecho =
                  CASE n = 1 -> "Multi-echo EPI sequence: only echo "
                                    \o call.in.echo_idx[1]
                                    \o " processed in single-echo mode."
                    [] n > 2 -> "Multi-echo EPI sequence: " \o ToString(n) \o " echoes."
                    [] OTHER -> "Single-echo EPI sequence."

C3_Witness ==
    /\ IsFunctionalCall
    /\ ret.raised = "none"
    /\ Len(call.in.echo_idx) = 2
    /\ ret.multiecho = "Single-echo EPI sequence."

IsPedirCall == call.op = "get_world_pedir"

AnatomicalLetters == {"R", "L", "A", "P", "S", "I"}

DirectionNamed(letter) ==
    CASE letter = "R" -> "Right"
      [] letter = "L" -> "Left"
      [] letter = "A" -> "Anterior"
      [] letter = "P" -> "Posterior"
      [] letter = "S" -> "Superior"
      [] letter = "I" -> "Inferior"

OppositeOf(direction) ==
    CASE direction = "Right" -> "Left"
      [] direction = "Left" -> "Right"
      [] direction = "Anterior" -> "Posterior"
      [] direction = "Posterior" -> "Anterior"
      [] direction = "Superior" -> "Inferior"
      [] direction = "Inferior" -> "Superior"

AxisPosition(axis) == CASE axis = "i" -> 1 [] axis = "j" -> 2 [] axis = "k" -> 3

\* C4: for an orientation triple over R/L, A/P, S/I and pe_direction in
\* {i, i-, j, j-, k, k-}, the result is the anatomical pair holding the
\* orientation letter at the axis position: with "-" the pair starts with
\* the direction that letter names, without it the pair ends with it, and
\* the results for the two signs of one axis are each other's reverse.
C4_WorldPedir ==
    (/\ IsPedirCall
     /\ Len(call.ornt) = 3
     /\ \A p \in 1..3 : SubSeq(call.ornt, p, p) \in AnatomicalLetters
     /\ call.pe_direction \in PeDirectionEnum \ {None})
        => LET pe == call.pe_direction.s
               axis == SubSeq(pe, 1, 1)
               signed == SubSeq(pe, 2, Len(pe)) = "-"
               named == DirectionNamed(SubSeq(call.ornt, AxisPosition(axis),
                                              AxisPosition(axis)))
               other == get_world_pedir(call.ornt,
                                        StrVal(IF signed THEN axis ELSE axis \o "-"))
           IN /\ ret.raised = "none"
              /\ ret.warnings = 0
              /\ ret.value = IF signed
                             THEN named \o "-" \o OppositeOf(named)
                             ELSE OppositeOf(named) \o "-" \o named
              /\ other.value = IF signed
                               THEN OppositeOf(named) \o "-" \o named
                               ELSE named \o "-" \o OppositeOf(named)

C4_Witness ==
    /\ IsPedirCall
    /\ call.ornt = "LAS"
    /\ call.pe_direction = StrVal("i-")
    /\ ret.raised = "none"
    /\ ret.value = "Left-Right"

\* C5: get_world_pedir never raises: when the phase-encoding direction is
\* None, its axis letter is not one of i, j, k, or the orientation letter at
\* the axis names no anatomical direction, it logs one warning and returns
\* the fallback string; the warning is logged exactly when the fallback
\* string is returned.  (Stated for orientation triples and non-empty
\* direction strings.)
C5_NeverRaises ==
    (/\ IsPedirCall
     /\ Len(call.ornt) = 3
     /\ call.pe_direction = None \/ Len(call.pe_direction.s) >= 1)
        => LET undetermined ==
                   \/ call.pe_direction = None
                   \/ SubSeq(call.pe_direction.s, 1, 1) \notin {"i", "j", "k"}
                   \/ LET pos == AxisPosition(SubSeq(call.pe_direction.s, 1, 1))
                      IN SubSeq(call.ornt, pos, pos) \notin AnatomicalLetters
           IN /\ ret.raised = "none"
              /\ undetermined => (ret.value = PedirFallback /\ ret.warnings = 1)
              /\ (ret.warnings = 1) <=> (ret.value = PedirFallback)

IsSubjectCall == call.op = "SubjectSummary"

\* the task identifier a series name encodes: the text after "task-" in the
\* part that starts with it ("" when there is none)
EncodedTask(parts) ==
    IF \E p \in 1..Len(parts) : StartsWith(parts[p], "task-")
    THEN LET p == CHOOSE q \in 1..Len(parts) : StartsWith(parts[q], "task-")
         IN SubSeq(parts[p], 6, Len(parts[p]))
    ELSE ""

\* the input series, an echo group counted once by its first file
InputSeries ==
    IF isdefined(call.in.bold)
    THEN [i \in 1..Len(call.in.bold.items) |-> call.in.bold.items[i].files[1]]
    ELSE <<>>

InputTasks == [i \in 1..Len(InputSeries) |-> EncodedTask(InputSeries[i])]

RECURSIVE SumRuns(_)
SumRuns(items) == IF items = <<>> THEN 0 ELSE Head(items).n_runs + SumRuns(Tail(items))

\* the line of one task in the segment
EmittedLine(item) ==
    "\t\t\t<li>Task: " \o item.task_id \o " (" \o ToString(item.n_runs)
        \o (IF item.n_runs = 1 THEN " run)" ELSE " runs)") \o "</li>"

C7_ReportRecordedAfterWrite ==
    /\ results.out_report # None
           => /\ pc = "done"
              /\ results.out_report = StrVal(call.cwd \o "/report.html")
              /\ report.exists
              /\ report.content = segment
              /\ segment # ""
    /\ pc = "raised" => (results.out_report = None /\ ret.raised # "none")
    /\ pc = "done" => (results.out_report # None /\ ret.raised = "none")
    /\ pc \in {"opened", "written"} => results.out_report = None

C7_Witness ==
    /\ pc = "done"
    /\ call.kind = "SubjectSummary"
    /\ results.out_report = StrVal("/work/report.html")
    /\ report.content = segment
    /\ Contains(segment, "Surface reconstruction status: Not run")

IsHistogramCall == call.op = "LabeledHistogram"

\* the label of each voxel: the label image, or "value > 0" without one
VoxelLabels ==
    IF isdefined(call.in.label)
    THEN call.in.label.items
    ELSE [i \in 1..Len(call.in.data) |-> IF call.in.data[i] > 0 THEN 1 ELSE 0]

PositiveLabels == {VoxelLabels[i] : i \in {j \in 1..Len(VoxelLabels) : VoxelLabels[j] > 0}}

\* the mapping's name for a label when it has one, the raw label otherwise
GroupName(label) ==
    IF /\ Truthy(call.in.mapping)
       /\ \E i \in 1..Len(call.in.mapping.items) : call.in.mapping.items[i].key = label
    THEN LET i == CHOOSE j \in 1..Len(call.in.mapping.items) :
                      call.in.mapping.items[j].key = label
         IN StrVal(call.in.mapping.items[i].name)
    ELSE IntVal(label)

\* C8: the histogram groups are one group per distinct positive label value
\* (exactly one group when no label image is supplied), each holding the
\* voxels carrying that label and named by its mapping entry when it has one
\* and by the raw label otherwise, for every mapping, partial ones included.
\* (Stated for images with a positive label and mappings whose keys are
\* labels of the image with distinct names.)
C8_GroupsPerLabel ==
    (/\ IsHistogramCall
     /\ PositiveLabels # {}
     /\ Truthy(call.in.mapping) =>
            \A i \in 1..Len(call.in.mapping.items) :
                /\ call.in.mapping.items[i].key \in PositiveLabels
                /\ \A j \in 1..Len(call.in.mapping.items) :
                       call.in.mapping.items[j].name = call.in.mapping.items[i].name
                           => j = i)
        => /\ ret.raised = "none"
           /\ DOMAIN ret.rois = {GroupName(l) : l \in PositiveLabels}
           /\ \A l \in PositiveLabels :
                  ret.rois[GroupName(l)] = SelectVoxels(call.in.data, VoxelLabels, l)
           /\ ~isdefined(call.in.label) => Cardinality(DOMAIN ret.rois) = 1

\* C9: for every subjects_dir (configured or not) and recon_method in {None,
\* freesurfer, infantfs, mcribs} the reconstruction status is defined: "Not
\* run" without a subjects directory; else for freesurfer and infantfs
\* "Pre-existing directory" if the tool's command starts with "echo" and "Run
\* by NiBabies" if not; for mcribs "Pre-existing directory" if
\* <subjects_dir>/<recon_id>/scripts/mcribs.log exists and "Run by NiBabies"
\* if not, recon_id being sub-<subject_id>[_ses-<session_id>].
C9_ReconStatusDefined ==
    (/\ IsSubjectCall
     /\ call.in.recon_method # Undefined
     /\ \A i \in 1..Len(InputTasks) : InputTasks[i] # "")
        => LET recon_id == "sub-" \o call.in.subject_id.s
                               \o (IF isdefined(call.in.session_id)
                                   THEN "_ses-" \o call.in.session_id.s ELSE "")
               log == SubjectsDir \o "/" \o recon_id \o "/scripts/mcribs.log"
               method == call.in.recon_method
           IN /\ ret.raised = "none"
              /\ ret.recon_status \in {"Not run", "Run by NiBabies", "Pre-existing directory"}
              /\ ~isdefined(call.in.subjects_dir) => ret.recon_status = "Not run"
              /\ (isdefined(call.in.subjects_dir)
                    /\ method \in {StrVal("freesurfer"), StrVal("infantfs")})
                     => ret.recon_status = IF call.env.cmdline_echo
                                           THEN "Pre-existing directory"
                                           ELSE "Run by NiBabies"
              /\ (isdefined(call.in.subjects_dir) /\ method = StrVal("mcribs"))
                     => ret.recon_status = IF log \in call.env.existing
                                           THEN "Pre-existing directory"
                                           ELSE "Run by NiBabies"

\* C10: with the mandatory inputs supplied and any of slice_timing,
\* fallback, dummy_scans, algo_dummy_scans, echo_idx left unset, a segment is
\* returned instead of an exception; slice timing reads "Applied" for True,
\* "Not applied" for False, "Skipped (too few volumes)" for 'TooShort' and
\* "n/a" when unset.
C10_PermissiveOptionalInputs ==
    IsFunctionalCall
        => /\ ret.raised = "none"
           /\ ret.segment # ""
           /\ ret.stc = CASE call.in.slice_timing = BoolVal(TRUE) -> "Applied"
                          [] call.in.slice_timing = BoolVal(FALSE) -> "Not applied"
                          [] call.in.slice_timing = StrVal("TooShort")
                                 -> "Skipped (too few volumes)"
                          [] call.in.slice_timing = Undefined -> "n/a"
           /\ Contains(ret.segment, "<li>Slice timing correction: " \o ret.stc \o "</li>")

====
